---- MODULE Spec2Model ----
(***************************************************************************)
(* Heterorepeat counting over fragmented protein sequences.                 *)
(*                                                                         *)
(* Three pipelines of the repository are modelled:                          *)
(*   "phase1" : Phase1-2.py, find_heterorepeats applied to a whole record   *)
(*   "temp"   : temp.py, process_protein_sequence                           *)
(*   "aiml"   : Hetero_AIML.py, process_protein_sequence                    *)
(* A string is a sequence of one-character strings; a dict is a function    *)
(* whose domain is its key set.                                             *)
(***************************************************************************)
EXTENDS Integers, Sequences, FiniteSets, TLC

\* ------------------------------------------------------------------ bounds
MaxLen == 5          \* longest input sequence
AlphabetSize == 3    \* how many of the 20 amino acids the inputs use
MaxFrag == 4         \* largest max_length tried
MaxOverlap == 4      \* largest overlap tried
MinCfg == 0 - 1      \* smallest max_length / overlap tried (invalid values)

amino_acids == <<"A", "C", "D", "E", "F", "G", "H", "I", "K", "L",
                 "M", "N", "P", "Q", "R", "S", "T", "V", "W", "Y">>

Alphabet == {amino_acids[j] : j \in 1..AlphabetSize}

Strings == UNION {[1..n -> Alphabet] : n \in 0..MaxLen}

Variants == {"phase1", "temp", "aiml"}

\* ------------------------------------------------------ Python primitives
Min(a, b) == IF a < b THEN a ELSE b
Max(a, b) == IF a > b THEN a ELSE b

\* A slice bound: negative indices count from the end, all are clamped.
PyIndex(n, idx) == IF idx < 0 THEN Max(n + idx, 0) ELSE Min(idx, n)

\* s[start:stop], 0-based, stop exclusive
PySlice(s, start, stop) ==
    LET lo == PyIndex(Len(s), start)
        hi == PyIndex(Len(s), stop)
    IN  IF hi <= lo THEN <<>> ELSE SubSeq(s, lo + 1, hi)

\* s[start:]
PySliceFrom(s, start) == PySlice(s, start, Len(s))

\* s[:stop]
PySliceTo(s, stop) == PySlice(s, 0, stop)

\* list(range(start, stop, step)) for step # 0
RECURSIVE PyRange(_, _, _)
PyRange(start, stop, step) ==
    IF (step > 0 /\ start < stop) \/ (step < 0 /\ start > stop)
    THEN <<start>> \o PyRange(start + step, stop, step)
    ELSE <<>>

\* set(substring)
CharSet(s) == {s[j] : j \in 1..Len(s)}

\* defaultdict(int) / {}
EmptyTable == [k \in {} |-> 0]

\* d[key] += count on a defaultdict(int)
DictAdd(d, key, count) ==
    IF key \in DOMAIN d
    THEN [d EXCEPT ![key] = @ + count]
    ELSE d @@ (key :> count)

\* for k, v in src.items(): if k in keys: d[k] += v
DictAddAll(d, src, keys) ==
    [k \in (DOMAIN d) \cup keys |->
        (IF k \in DOMAIN d THEN d[k] ELSE 0) + (IF k \in keys THEN src[k] ELSE 0)]

\* ---------------------------------------------------------------- Fragmenter
\* off-by-one in the range end: a trailing empty fragment when the length
\* is a multiple of max_length
fragment_range_end_off_by_one(sequence, max_length) ==
    LET starts == PyRange(0, Len(sequence) + 1, max_length)
    IN  [j \in 1..Len(starts) |-> PySlice(sequence, starts[j], starts[j] + max_length)]

\* each slice one character short
fragment_slice_short(sequence, max_length) ==
    LET starts == PyRange(0, Len(sequence), max_length)
    IN  [j \in 1..Len(starts) |-> PySlice(sequence, starts[j], starts[j] + max_length - 1)]

\* [sequence[i:i+max_length] for i in range(0, len(sequence), max_length)]
\* (max_length = 0 raises in range(); see FragmentSequence)
fragment_protein_sequence(sequence, max_length) ==
    LET starts == PyRange(0, Len(sequence), max_length)
    IN  [j \in 1..Len(starts) |-> PySlice(sequence, starts[j], starts[j] + max_length)]

\* ------------------------------------------------------------------ Scanners
\* Phase1-2.py: the two nested loops of find_heterorepeats
RECURSIVE find_heterorepeats_loop(_, _, _, _)
find_heterorepeats_loop(protein, length, i, freq) ==
    LET n == Len(protein) IN
    IF length >= n + 1 THEN freq
    ELSE IF i >= n - length + 1
         THEN find_heterorepeats_loop(protein, length + 1, 0, freq)
         ELSE LET substring == PySlice(protein, i, i + length)
              IN  find_heterorepeats_loop(protein, length, i + 1,
                     IF Cardinality(CharSet(substring)) = Len(substring)
                     THEN DictAdd(freq, substring, 1)
                     ELSE freq)

find_heterorepeats(protein) == find_heterorepeats_loop(protein, 2, 0, EmptyTable)

\* temp.py: the two nested loops of find_hetero_amino_acid_repeats
RECURSIVE temp_scan_loop(_, _, _, _)
temp_scan_loop(sequence, length, i, freq) ==
    LET n == Len(sequence) IN
    IF length >= n + 1 THEN freq
    ELSE IF i >= n - length + 1
         THEN temp_scan_loop(sequence, length + 1, 0, freq)
         ELSE LET substring == PySlice(sequence, i, i + length)
              IN  temp_scan_loop(sequence, length, i + 1,
                     IF Cardinality(CharSet(substring)) = Len(substring)
                     THEN DictAdd(freq, substring, 1)
                     ELSE freq)

\* the return filter keeping count-1 entries
temp_scan_keeps_singles(sequence) ==
    LET freq == temp_scan_loop(sequence, 2, 0, EmptyTable)
    IN  [k \in {r \in DOMAIN freq : Len(r) > 1 /\ freq[r] > 0} |-> freq[k]]

temp_find_hetero_amino_acid_repeats(sequence) ==
    LET freq == temp_scan_loop(sequence, 2, 0, EmptyTable)
    IN  [k \in {r \in DOMAIN freq : Len(r) > 1 /\ freq[r] > 1} |-> freq[k]]

\* Hetero_AIML.py: the two nested loops of find_hetero_amino_acid_repeats
\* (every substring is counted, there is no distinctness test)
RECURSIVE aiml_scan_loop(_, _, _, _)
aiml_scan_loop(sequence, length, i, repeat_counts) ==
    IF length >= Len(sequence) + 1 THEN repeat_counts
    ELSE IF i >= Len(sequence) - length + 1
         THEN aiml_scan_loop(sequence, length + 1, 0, repeat_counts)
         ELSE LET substring == PySlice(sequence, i, i + length)
              IN  aiml_scan_loop(sequence, length, i + 1,
                                 DictAdd(repeat_counts, substring, 1))

aiml_find_hetero_amino_acid_repeats(sequence) ==
    LET repeat_counts == aiml_scan_loop(sequence, 2, 0, EmptyTable)
    IN  [k \in {r \in DOMAIN repeat_counts : repeat_counts[r] > 1} |-> repeat_counts[k]]

\* the scanner each pipeline calls
Scanner(v, s) ==
    IF v = "phase1" THEN find_heterorepeats(s)
    ELSE IF v = "temp" THEN temp_find_hetero_amino_acid_repeats(s)
    ELSE aiml_find_hetero_amino_acid_repeats(s)

\* ------------------------------------------------------- Boundary Reconciler
\* fragments[i][-overlap:] if len(fragments[i]) >= overlap else fragments[i]
LeftOverlap(frag, ov) ==
    IF Len(frag) >= ov THEN PySliceFrom(frag, 0 - ov) ELSE frag

\* fragments[i+1][:overlap] if len(fragments[i+1]) >= overlap else fragments[i+1]
RightOverlap(frag, ov) ==
    IF Len(frag) >= ov THEN PySliceTo(frag, ov) ELSE frag

\* any(aa in left_overlap for aa in substring) and
\* any(aa in right_overlap for aa in substring)
SpansBoth(substring, left, right) ==
    /\ \E aa \in CharSet(substring) : aa \in CharSet(left)
    /\ \E aa \in CharSet(substring) : aa \in CharSet(right)

\* the keys of boundary_repeats that pass the test
Accepted(boundary_repeats, left, right) ==
    {substring \in DOMAIN boundary_repeats : SpansBoth(substring, left, right)}

\* ---------------------------------------------------------------------- state
VARIABLES
    variant,            \* which pipeline runs
    sequence,           \* the input sequence
    max_length,         \* argument of fragment_protein_sequence
    overlap,            \* argument of process_protein_sequence
    pc,                 \* position in the pipeline
    fragments,          \* the list returned by fragment_protein_sequence
    i,                  \* loop index (0-based, as in the code)
    final_repeats,      \* the defaultdict object named final_repeats
    new_repeats,        \* the defaultdict of find_new_boundary_repeats
    scan_in,            \* argument of the latest scanner call
    scan_out,           \* table returned by the latest scanner call
    left_overlap,       \* left_overlap of the latest boundary iteration
    right_overlap,      \* right_overlap of the latest boundary iteration
    added,              \* keys the latest boundary iteration accepted
    arg_fragments,      \* value of the fragments argument at the latest call
    arg_final_repeats   \* value of the final_repeats argument at the latest call

vars == <<variant, sequence, max_length, overlap, pc, fragments, i,
          final_repeats, new_repeats, scan_in, scan_out, left_overlap,
          right_overlap, added, arg_fragments, arg_final_repeats>>

inputs == <<variant, sequence, max_length, overlap>>
boundary_locals == <<left_overlap, right_overlap, added>>
call_args == <<arg_fragments, arg_final_repeats>>
scan_record == <<scan_in, scan_out>>

Init ==
    /\ variant \in Variants
    /\ sequence \in Strings
    /\ max_length \in IF variant = "phase1" THEN {1} ELSE MinCfg..MaxFrag
    /\ overlap \in IF variant = "phase1" THEN {1} ELSE MinCfg..MaxOverlap
    /\ pc = "start"
    /\ fragments = <<>>
    /\ i = 0
    /\ final_repeats = EmptyTable
    /\ new_repeats = EmptyTable
    /\ scan_in = <<>>
    /\ scan_out = EmptyTable
    /\ left_overlap = <<>>
    /\ right_overlap = <<>>
    /\ added = {}
    /\ arg_fragments = <<>>
    /\ arg_final_repeats = EmptyTable

\* Phase1-2.py process_excel: freq = find_heterorepeats(sequence)
ScanRecord ==
    /\ pc = "start"
    /\ variant = "phase1"
    /\ scan_in' = sequence
    /\ scan_out' = find_heterorepeats(sequence)
    /\ final_repeats' = find_heterorepeats(sequence)
    /\ pc' = "done"
    /\ UNCHANGED <<inputs, fragments, i, new_repeats, boundary_locals, call_args>>

\* fragments = fragment_protein_sequence(sequence); final_repeats = defaultdict(int)
\* range() raises ValueError when its step is 0
FragmentSequence ==
    /\ pc = "start"
    /\ variant # "phase1"
    /\ IF max_length = 0
       THEN /\ pc' = "ValueError"
            /\ UNCHANGED fragments
       ELSE /\ pc' = "scan"
            /\ fragments' = fragment_protein_sequence(sequence, max_length)
    /\ i' = 0
    /\ final_repeats' = EmptyTable
    /\ UNCHANGED <<inputs, new_repeats, scan_record, boundary_locals, call_args>>

\* Step 1, one iteration: the fragment's repeats are summed into final_repeats
ScanFragment ==
    /\ pc = "scan"
    /\ i < Len(fragments)
    /\ LET fragment == fragments[i + 1]
           fragment_repeats == Scanner(variant, fragment)
       IN  /\ scan_in' = fragment
           /\ scan_out' = fragment_repeats
           /\ final_repeats' = DictAddAll(final_repeats, fragment_repeats,
                                          DOMAIN fragment_repeats)
    /\ i' = i + 1
    /\ UNCHANGED <<inputs, pc, fragments, new_repeats, boundary_locals, call_args>>

\* Step 2: check_boundary_repeats(fragments, final_repeats, overlap) is entered
CallCheckBoundaryRepeats ==
    /\ pc = "scan"
    /\ i >= Len(fragments)
    /\ pc' = "check_boundary"
    /\ i' = 0
    /\ arg_fragments' = fragments
    /\ arg_final_repeats' = final_repeats
    /\ UNCHANGED <<inputs, fragments, final_repeats, new_repeats, scan_record,
                   boundary_locals>>

\* one iteration of the loop of check_boundary_repeats; final_repeats is the
\* caller's object, updated in place
CheckBoundaryIter ==
    /\ pc = "check_boundary"
    /\ i < Len(fragments) - 1
    /\ LET left == LeftOverlap(fragments[i + 1], overlap)
           right == RightOverlap(fragments[i + 2], overlap)
           overlap_region == left \o right
           boundary_repeats == Scanner(variant, overlap_region)
           acc == Accepted(boundary_repeats, left, right)
       IN  /\ left_overlap' = left
           /\ right_overlap' = right
           /\ scan_in' = overlap_region
           /\ scan_out' = boundary_repeats
           /\ added' = acc
           /\ final_repeats' = DictAddAll(final_repeats, boundary_repeats, acc)
    /\ i' = i + 1
    /\ UNCHANGED <<inputs, pc, fragments, new_repeats, call_args>>

\* return final_repeats; temp.py returns it to the caller of
\* process_protein_sequence, Hetero_AIML.py goes on to step 3
ReturnCheckBoundaryRepeats ==
    /\ pc = "check_boundary"
    /\ i >= Len(fragments) - 1
    /\ pc' = IF variant = "temp" THEN "done" ELSE "step3"
    /\ UNCHANGED <<inputs, fragments, i, final_repeats, new_repeats, scan_record,
                   boundary_locals, call_args>>

\* Step 3: find_new_boundary_repeats(fragments, final_repeats, overlap) is
\* entered; new_repeats = defaultdict(int)
CallFindNewBoundaryRepeats ==
    /\ pc = "step3"
    /\ pc' = "find_new"
    /\ i' = 0
    /\ new_repeats' = EmptyTable
    /\ arg_fragments' = fragments
    /\ arg_final_repeats' = final_repeats
    /\ UNCHANGED <<inputs, fragments, final_repeats, scan_record, boundary_locals>>

\* one iteration of the loop of find_new_boundary_repeats
FindNewIter ==
    /\ pc = "find_new"
    /\ i < Len(fragments) - 1
    /\ LET left == LeftOverlap(fragments[i + 1], overlap)
           right == RightOverlap(fragments[i + 2], overlap)
           overlap_region == left \o right
           boundary_repeats == Scanner(variant, overlap_region)
           acc == Accepted(boundary_repeats, left, right)
           fresh == {substring \in acc : substring \notin DOMAIN final_repeats}
       IN  /\ left_overlap' = left
           /\ right_overlap' = right
           /\ scan_in' = overlap_region
           /\ scan_out' = boundary_repeats
           /\ added' = fresh
           /\ new_repeats' = DictAddAll(new_repeats, boundary_repeats, fresh)
    /\ i' = i + 1
    /\ UNCHANGED <<inputs, pc, fragments, final_repeats, call_args>>

\* return new_repeats
ReturnFindNewBoundaryRepeats ==
    /\ pc = "find_new"
    /\ i >= Len(fragments) - 1
    /\ pc' = "merge"
    /\ UNCHANGED <<inputs, fragments, i, final_repeats, new_repeats, scan_record,
                   boundary_locals, call_args>>

\* Step 4: for k, v in new_repeats.items(): final_repeats[k] += v; return
MergeNewRepeats ==
    /\ pc = "merge"
    /\ final_repeats' = DictAddAll(final_repeats, new_repeats, DOMAIN new_repeats)
    /\ pc' = "done"
    /\ UNCHANGED <<inputs, fragments, i, new_repeats, scan_record, boundary_locals,
                   call_args>>

Next ==
    \/ ScanRecord
    \/ FragmentSequence
    \/ ScanFragment
    \/ CallCheckBoundaryRepeats
    \/ CheckBoundaryIter
    \/ ReturnCheckBoundaryRepeats
    \/ CallFindNewBoundaryRepeats
    \/ FindNewIter
    \/ ReturnFindNewBoundaryRepeats
    \/ MergeNewRepeats

Spec == Init /\ [][Next]_vars

\* ------------------------------------------------------ vocabulary of claims
\* number of start positions at which key occurs in s
Occurrences(s, key) ==
    Cardinality({p \in 1..(Len(s) - Len(key) + 1) : SubSeq(s, p, p + Len(key) - 1) = key})

\* length >= 2 and pairwise-distinct characters
Qualifying(key) == Len(key) >= 2 /\ Cardinality(CharSet(key)) = Len(key)

\* every contiguous substring of s of length >= 2
SubstringsOf(s) ==
    {key \in {SubSeq(s, p, q) : p \in 1..Len(s), q \in 1..Len(s)} : Len(key) >= 2}

RECURSIVE Concat(_)
Concat(list) == IF list = <<>> THEN <<>> ELSE Head(list) \o Concat(Tail(list))

ValidConfig == max_length >= 1 /\ overlap >= 1

Fragmented == variant # "phase1" /\ pc \notin {"start", "ValueError"}

Delivered == variant # "phase1" /\ pc = "done"

\* the key has an occurrence in left \o right that starts in left and ends in right
CrossesBoundary(key, left, right) ==
    \E p \in 1..Len(left) :
        /\ p + Len(key) - 1 > Len(left)
        /\ p + Len(key) - 1 <= Len(left) + Len(right)
        /\ SubSeq(left \o right, p, p + Len(key) - 1) = key

\* the keys accepted at the boundary after fragment j (1-based)
AcceptedAt(j) ==
    LET left == LeftOverlap(fragments[j], overlap)
        right == RightOverlap(fragments[j + 1], overlap)
    IN  Accepted(Scanner(variant, left \o right), left, right)

\* the keys some per-fragment scan reported
SeenInFragments ==
    UNION {DOMAIN Scanner(variant, fragments[j]) : j \in 1..Len(fragments)}

\* -------------------------------------------------------------------- claims

\* C1: in the table temp.py's process_protein_sequence returns, the count of
\* every reported key equals the number of start positions at which the key
\* occurs in the whole sequence (boundary occurrences counted exactly once).
C1_CountsMatchWholeSequence ==
    (Delivered /\ variant = "temp" /\ ValidConfig) =>
        \A key \in DOMAIN final_repeats :
            final_repeats[key] = Occurrences(sequence, key)

\* C2: a qualifying substring that occurs at least twice in the whole
\* sequence, at most once in each fragment and never across a boundary, is in
\* the table temp.py's process_protein_sequence returns, with its summed count.
C2_FilterAfterSum ==
    (Delivered /\ variant = "temp" /\ ValidConfig) =>
        \A key \in SubstringsOf(sequence) :
            ( /\ Qualifying(key)
              /\ Occurrences(sequence, key) >= 2
              /\ \A j \in 1..Len(fragments) : Occurrences(fragments[j], key) <= 1
              /\ Cardinality({j \in 1..Len(fragments) : Occurrences(fragments[j], key) = 1})
                    = Occurrences(sequence, key) )
            => ( /\ key \in DOMAIN final_repeats
                 /\ final_repeats[key] = Occurrences(sequence, key) )

\* C3 as stated: whenever the sequence is no longer than max_length (the
\* empty sequence included) there is exactly one fragment, and the returned
\* table is the direct scan of the whole sequence with keys of length >= 2
\* and count >= 2.
C3_SingleFragmentAlways ==
    (Delivered /\ ValidConfig /\ Len(sequence) <= max_length) =>
        /\ Len(fragments) = 1
        /\ LET direct == Scanner(variant, sequence)
           IN  final_repeats =
                 [k \in {r \in DOMAIN direct : Len(r) >= 2 /\ direct[r] >= 2} |-> direct[k]]

\* C3 amended: a non-empty sequence no longer than max_length gives exactly
\* one fragment and the empty sequence gives none; in both cases the returned
\* table is the direct scan of the whole sequence with keys of length >= 2
\* and count >= 2.
C3_SingleFragmentNoOp ==
    (Delivered /\ max_length >= 1 /\ Len(sequence) <= max_length) =>
        /\ Len(fragments) = (IF sequence = <<>> THEN 0 ELSE 1)
        /\ LET direct == Scanner(variant, sequence)
           IN  final_repeats =
                 [k \in {r \in DOMAIN direct : Len(r) >= 2 /\ direct[r] >= 2} |-> direct[k]]

C3_Witness ==
    /\ Delivered
    /\ ValidConfig
    /\ Len(sequence) = max_length
    /\ Len(fragments) = 1
    /\ DOMAIN final_repeats # {}

\* C4: for max_length >= 1 the fragments concatenate to the sequence, none is
\* empty, none is longer than max_length and all but the last have length
\* exactly max_length.
C4_FragmentsPartition ==
    (Fragmented /\ max_length >= 1) =>
        /\ Concat(fragments) = sequence
        /\ \A j \in 1..Len(fragments) :
              /\ Len(fragments[j]) >= 1
              /\ Len(fragments[j]) <= max_length
        /\ \A j \in 1..(Len(fragments) - 1) : Len(fragments[j]) = max_length

C4_Witness ==
    /\ Fragmented
    /\ max_length >= 2
    /\ Len(fragments) >= 3
    /\ Len(fragments[Len(fragments)]) < max_length

\* C5: every key of a table a scanner returns has length >= 2 and
\* pairwise-distinct characters, its count is the number of start positions
\* at which it occurs in the scanned input, and an input shorter than 2 gives
\* the empty table.
C5_ScannerCountsDistinctOnly ==
    /\ \A key \in DOMAIN scan_out :
          /\ Qualifying(key)
          /\ scan_out[key] = Occurrences(scan_in, key)
    /\ Len(scan_in) < 2 => DOMAIN scan_out = {}

\* C6: every key of the table process_protein_sequence returns has length >= 2
\* and count >= 2.
C6_FilterInvariant ==
    Delivered =>
        \A key \in DOMAIN final_repeats :
            Len(key) >= 2 /\ final_repeats[key] >= 2

C6_Witness ==
    /\ Delivered
    /\ variant = "aiml"
    /\ ValidConfig
    /\ Len(fragments) >= 2
    /\ \E key \in DOMAIN final_repeats : key \notin SeenInFragments

\* C7: a max_length <= 0 makes fragmenting fail, and an overlap <= 0 makes the
\* boundary step fail: no fragment list and no table is produced.
C7_InvalidConfigRejected ==
    /\ (variant # "phase1" /\ pc # "start" /\ max_length <= 0) => pc = "ValueError"
    /\ (variant # "phase1" /\ pc \in {"step3", "find_new", "merge", "done"})
          => overlap >= 1

\* C8: when check_boundary_repeats and find_new_boundary_repeats return, the
\* fragments list and the final_repeats table passed in are as they were at
\* the call.
C8_MergeLeavesInputsAlone ==
    ( \/ pc = "step3"
      \/ pc = "merge"
      \/ (pc = "done" /\ variant = "temp") ) =>
        /\ fragments = arg_fragments
        /\ final_repeats = arg_final_repeats

\* C9: in Hetero_AIML.py check_boundary_repeats adds counts only to keys the
\* per-fragment scans had put in the table, and every key accepted at a
\* boundary that no per-fragment scan reported is in the table
\* find_new_boundary_repeats returns (stated for runs whose table holds only
\* keys of pairwise-distinct characters).
C9_BoundarySplitByPresence ==
    (variant = "aiml" /\ ValidConfig /\ \A key \in DOMAIN final_repeats : Qualifying(key)) =>
        /\ pc = "step3" => DOMAIN final_repeats = DOMAIN arg_final_repeats
        /\ pc = "merge" =>
              \A j \in 1..(Len(fragments) - 1) :
                  \A key \in AcceptedAt(j) :
                      key \notin SeenInFragments => key \in DOMAIN new_repeats

\* C10: every key whose count a boundary iteration adds has an occurrence in
\* the overlap region that starts in the left slice and ends in the right one.
C10_AddedKeysCrossBoundary ==
    (ValidConfig /\ pc = "check_boundary") =>
        \A key \in added : CrossesBoundary(key, left_overlap, right_overlap)

====
